---- MODULE Spec2Model ----
(***************************************************************************)
(* Sweet Shop Management System: the HTTP API of main.py over the SQLite   *)
(* store of database.py.  Every database.py function opens a connection of *)
(* its own and every statement is committed on its own, so a handler is a  *)
(* sequence of store steps and the steps of concurrent handlers (FastAPI   *)
(* runs `def` endpoints on a thread pool) interleave.  One action models   *)
(* one store step of one handler together with the local code around it.   *)
(***************************************************************************)
EXTENDS Integers, Sequences, FiniteSets, TLC

VARIABLES
    users,      \* table users: username -> [id, password_hash, is_admin]
    user_seq,   \* sqlite_sequence of users (AUTOINCREMENT)
    sweets,     \* table sweets: id -> [name, category, price, quantity, created_at]
    sweet_seq,  \* sqlite_sequence of sweets (AUTOINCREMENT)
    opening,    \* the sweets table as it was when the run started (never written)
    pc,         \* per worker: the handler step it is at
    req,        \* per worker: the request it is serving
    loc,        \* per worker: the handler's local variables
    resp,       \* per worker: the response it produced
    prev,       \* per worker: the exchange its client completed before this one
    budget,     \* requests the run may still receive
    now         \* the wall clock the token service reads

vars == <<users, user_seq, sweets, sweet_seq, opening, pc, req, loc, resp, prev, budget, now>>

store == <<users, user_seq, sweets, sweet_seq>>

(***************************************************************************)
(* Bounds of the model                                                     *)
(***************************************************************************)
NumProcs == 2       \* concurrent workers
MaxQty == 2         \* largest stock of an initial item, largest request quantity
MaxRequests == 2    \* requests received in one run
MaxClock == 3       \* the last instant the clock reaches

Procs == 1 .. NumProcs

(***************************************************************************)
(* Values                                                                  *)
(***************************************************************************)
None == [none |-> TRUE]

\* Optional[...] request fields: <<>> is None, <<v>> is the value v
Null == <<>>
Some(v) == <<v>>

Usernames == {"alice", "bob"}
Passwords == {"pw"}
\* strings are sequences of characters so that LIKE can be computed
Names == {<<"L", "a">>, <<"b">>}
Categories == {"Indian", "Candy"}
Prices == {250, 100}        \* price in hundredths
Times == {"t0", "t1"}       \* values datetime.now().isoformat() can take

ADMIN_KEY == "aswd"
AdminKeys == {Null, Some("aswd"), Some("ASWD")}

(***************************************************************************)
(* auth.py is not among the source files: the token service and the hasher *)
(* follow sections 4.1 and 4.2 of the specification.                       *)
(***************************************************************************)
BadToken == [bad |-> TRUE]

\* the validity window of a token, in ticks of the clock
ACCESS_TOKEN_EXPIRE == 2

\* the token of (sub, is_admin) issued at the instant at
IssuedAt(sub, is_admin, at) ==
    [sub |-> sub, is_admin |-> is_admin, exp |-> at + ACCESS_TOKEN_EXPIRE]

create_access_token(sub, is_admin) == IssuedAt(sub, is_admin, now)

\* expiry left unchecked
VerifyIgnoringExpiry(token) == IF token = BadToken THEN None ELSE token

\* invalid when the signature does not verify or current time >= expiration
verify_token(token) ==
    IF token = BadToken THEN None
    ELSE IF now >= token.exp THEN None
    ELSE token

hash_password(password) == <<"hash", password>>

\* true iff the plaintext is the one the hash was made from
verify_password(plain_password, hashed_password) ==
    hashed_password = <<"hash", plain_password>>

(***************************************************************************)
(* database.py: reads                                                      *)
(***************************************************************************)
get_user_by_username(username) ==
    IF username \in DOMAIN users
    THEN [id |-> users[username].id, username |-> username,
          password_hash |-> users[username].password_hash,
          is_admin |-> users[username].is_admin]
    ELSE None

SweetDict(sweet_id) ==
    [id |-> sweet_id, name |-> sweets[sweet_id].name,
     category |-> sweets[sweet_id].category, price |-> sweets[sweet_id].price,
     quantity |-> sweets[sweet_id].quantity,
     created_at |-> sweets[sweet_id].created_at]

get_sweet_by_id(sweet_id) ==
    IF sweet_id \in DOMAIN sweets THEN SweetDict(sweet_id) ELSE None

\* rows of the ids S in ascending id order (ORDER BY id)
RECURSIVE OrderById(_)
OrderById(S) ==
    IF S = {} THEN <<>>
    ELSE LET m == CHOOSE x \in S : \A y \in S : x <= y
         IN <<SweetDict(m)>> \o OrderById(S \ {m})

get_all_sweets == OrderById(DOMAIN sweets)

\* SQLite's LIKE folds the case of ASCII letters
Lower(c) == CASE c = "L" -> "l" [] c = "A" -> "a" [] c = "B" -> "b" [] OTHER -> c

Fold(str) == [i \in 1 .. Len(str) |-> Lower(str[i])]

\* str LIKE '%pattern%'
Like(str, pattern) ==
    \E i \in 1 .. (Len(str) - Len(pattern) + 1) :
        SubSeq(Fold(str), i, i + Len(pattern) - 1) = Fold(pattern)

\* `if name:` and `if category:` skip an empty string as they skip None
TruthyName(opt) == opt # Null /\ opt[1] # <<>>

TruthyCategory(opt) == opt # Null /\ opt[1] # ""

SearchMatches(id, name, category, min_price, max_price) ==
    /\ TruthyName(name) => Like(sweets[id].name, name[1])
    /\ TruthyCategory(category) => sweets[id].category = category[1]
    /\ min_price # Null => sweets[id].price >= min_price[1]
    /\ max_price # Null => sweets[id].price <= max_price[1]

search_sweets(name, category, min_price, max_price) ==
    OrderById({id \in DOMAIN sweets :
                  SearchMatches(id, name, category, min_price, max_price)})

\* SELECT COUNT(*) FROM users
CountUsers == Cardinality(DOMAIN users)

\* the rowid of a table without AUTOINCREMENT: one more than the largest present
ReusedRowid == IF DOMAIN sweets = {} THEN 1
               ELSE 1 + (CHOOSE x \in DOMAIN sweets : \A y \in DOMAIN sweets : y <= x)

\* INSERT INTO sweets: AUTOINCREMENT takes the id after the largest ever used
NextSweetId == sweet_seq + 1

InsertSweet(sweet_id, name, category, price, quantity, created_at) ==
    [id \in DOMAIN sweets \cup {sweet_id} |->
        IF id = sweet_id
        THEN [name |-> name, category |-> category, price |-> price,
              quantity |-> quantity, created_at |-> created_at]
        ELSE sweets[id]]

\* a PUT that replaces the row: a field not supplied falls back to its default
UpdateFieldsReplacing(sweet_id, name, category, price, quantity) ==
    IF sweet_id \in DOMAIN sweets
    THEN [sweets EXCEPT ![sweet_id] =
            [name |-> IF name # Null THEN name[1] ELSE @.name,
             category |-> IF category # Null THEN category[1] ELSE @.category,
             price |-> IF price # Null THEN price[1] ELSE @.price,
             quantity |-> IF quantity # Null THEN quantity[1] ELSE 0,
             created_at |-> @.created_at]]
    ELSE sweets

\* UPDATE sweets SET <the fields given> WHERE id = ?
UpdateFields(sweet_id, name, category, price, quantity) ==
    IF sweet_id \in DOMAIN sweets
    THEN [sweets EXCEPT ![sweet_id] =
            [name |-> IF name # Null THEN name[1] ELSE @.name,
             category |-> IF category # Null THEN category[1] ELSE @.category,
             price |-> IF price # Null THEN price[1] ELSE @.price,
             quantity |-> IF quantity # Null THEN quantity[1] ELSE @.quantity,
             created_at |-> @.created_at]]
    ELSE sweets

\* DELETE FROM sweets WHERE id = ?
DeleteRow(sweet_id) == [id \in DOMAIN sweets \ {sweet_id} |-> sweets[id]]

\* the column declared without UNIQUE
NoUniqueConstraint(username) == FALSE

\* username TEXT UNIQUE NOT NULL: the INSERT of a username that is there fails
UniqueViolation(username) == username \in DOMAIN users

\* the new account made the only admin: every other account demoted
InsertUserDemoting(username, password_hash, is_admin) ==
    [u \in DOMAIN users \cup {username} |->
        IF u = username
        THEN [id |-> user_seq + 1, password_hash |-> password_hash,
              is_admin |-> is_admin]
        ELSE [users[u] EXCEPT !.is_admin = users[u].is_admin /\ ~is_admin]]

\* INSERT INTO users (username, password_hash, is_admin, created_at)
InsertUser(username, password_hash, is_admin) ==
    [u \in DOMAIN users \cup {username} |->
        IF u = username
        THEN [id |-> user_seq + 1, password_hash |-> password_hash,
              is_admin |-> is_admin]
        ELSE users[u]]

\* SELECT quantity FROM sweets WHERE id = ?  (the row, or None)
SelectQuantity(sweet_id) ==
    IF sweet_id \in DOMAIN sweets THEN <<sweets[sweet_id].quantity>> ELSE Null

(***************************************************************************)
(* auth.py authenticate_user (not among the source files): the account     *)
(* when the username has one and the password verifies against its hash,   *)
(* nothing otherwise                                                       *)
(***************************************************************************)
authenticate_user(username, password) ==
    LET user == get_user_by_username(username) IN
    IF user = None THEN None
    ELSE IF ~verify_password(password, user.password_hash) THEN None
    ELSE user

(***************************************************************************)
(* database.py: the ledger rules                                           *)
(***************************************************************************)
\* the check left out
NoStockCheck(current_quantity, quantity) == FALSE

\* the check off by one
InsufficientStockLenient(current_quantity, quantity) == current_quantity + 1 < quantity

\* if current_quantity < quantity: return False
InsufficientStock(current_quantity, quantity) == current_quantity < quantity

\* the subtraction left out
PurchaseKeepsQuantity(current_quantity, quantity) == current_quantity

PurchaseNewQuantity(current_quantity, quantity) == current_quantity - quantity

\* the quantity set instead of added
RestockSetsQuantity(current_quantity, quantity) == quantity

RestockNewQuantity(current_quantity, quantity) == current_quantity + quantity

\* the UPDATE never committed
UpdateQuantityNoCommit(new_quantity, sweet_id) == sweets

\* the UPDATE without its WHERE clause
UpdateQuantityOfAll(new_quantity, sweet_id) ==
    [id \in DOMAIN sweets |-> [sweets[id] EXCEPT !.quantity = new_quantity]]

\* UPDATE sweets SET quantity = ? WHERE id = ?  (no row: nothing is written)
UpdateQuantity(new_quantity, sweet_id) ==
    IF sweet_id \in DOMAIN sweets
    THEN [sweets EXCEPT ![sweet_id].quantity = new_quantity]
    ELSE sweets

(***************************************************************************)
(* Requests, locals and responses                                          *)
(***************************************************************************)
NoFields == [name |-> Null, category |-> Null, price |-> Null, quantity |-> Null]
NoUserData == [username |-> "", password |-> "", admin_key |-> Null]
NoParams == [name |-> Null, category |-> Null, min_price |-> Null, max_price |-> Null]

NoRequest ==
    [op |-> "none", token |-> BadToken, sweet_id |-> 0, quantity |-> 0,
     sweet |-> NoFields, user_data |-> NoUserData, params |-> NoParams]

PurchaseRequest(token, sweet_id, quantity) ==
    [NoRequest EXCEPT !.op = "purchase", !.token = token,
                      !.sweet_id = sweet_id, !.quantity = quantity]

RestockRequest(token, sweet_id, quantity) ==
    [NoRequest EXCEPT !.op = "restock", !.token = token,
                      !.sweet_id = sweet_id, !.quantity = quantity]

RegisterRequest(username, password, admin_key) ==
    [NoRequest EXCEPT !.op = "register",
                      !.user_data = [username |-> username, password |-> password,
                                     admin_key |-> admin_key]]

AddRequest(token, name, category, price, quantity) ==
    [NoRequest EXCEPT !.op = "add", !.token = token,
                      !.sweet = [name |-> Some(name), category |-> Some(category),
                                 price |-> Some(price), quantity |-> Some(quantity)]]

UpdateRequest(token, sweet_id, fields) ==
    [NoRequest EXCEPT !.op = "update", !.token = token,
                      !.sweet_id = sweet_id, !.sweet = fields]

DeleteRequest(token, sweet_id) ==
    [NoRequest EXCEPT !.op = "delete", !.token = token, !.sweet_id = sweet_id]

ListRequest(token) == [NoRequest EXCEPT !.op = "list", !.token = token]

SearchRequest(token, params) ==
    [NoRequest EXCEPT !.op = "search", !.token = token, !.params = params]

LoginRequest(username, password) ==
    [NoRequest EXCEPT !.op = "login",
                      !.user_data = [username |-> username, password |-> password,
                                     admin_key |-> Null]]

NoLocals ==
    [current_user |-> None, sweet |-> None, current_quantity |-> 0,
     user_count |-> 0, sweet_id |-> 0]

NoResponse ==
    [status |-> 0, item |-> None, items |-> <<>>, token |-> None, detail |-> ""]

NoExchange == [req |-> NoRequest, resp |-> NoResponse, sweet |-> None]

\* raise HTTPException(status_code) / return of a handler
Reply(p, status, item) ==
    /\ pc' = [pc EXCEPT ![p] = "done"]
    /\ resp' = [resp EXCEPT ![p] = [NoResponse EXCEPT !.status = status, !.item = item]]

Goto(p, label) ==
    /\ pc' = [pc EXCEPT ![p] = label]
    /\ UNCHANGED resp

(***************************************************************************)
(* main.py: the access gate                                                *)
(***************************************************************************)
\* security = HTTPBearer(): a request without an Authorization header does not
\* reach get_current_user.  FastAPI answers it 403 "Not authenticated" up to
\* release 0.121 and 401 from 0.122 on; the source pins no release.
NoCredentials == [missing |-> TRUE]
NotAuthenticated == {401, 403}

\* delete left open to every account
AdminOnlyRestock(op) == op = "restock"

\* the endpoints that depend on get_admin_user
AdminOnly(op) == op \in {"delete", "restock"}

Entry(op) ==
    CASE op = "purchase" -> "purchase_check"
      [] op = "restock" -> "restock_check"
      [] op = "add" -> "add_create"
      [] op = "list" -> "list"
      [] op = "search" -> "search"
      [] op = "update" -> "update_check"
      [] op = "delete" -> "delete_check"

\* get_current_user, then get_admin_user on the admin-only endpoints
GetCurrentUser(p) ==
    /\ pc[p] = "auth"
    /\ LET payload == verify_token(req[p].token) IN
       IF req[p].token = NoCredentials
       THEN (\E status \in NotAuthenticated : Reply(p, status, None)) /\ UNCHANGED loc
       ELSE IF payload = None
       THEN Reply(p, 401, None) /\ UNCHANGED loc
       ELSE LET user == get_user_by_username(payload.sub) IN
            IF user = None
            THEN Reply(p, 401, None) /\ UNCHANGED loc
            ELSE IF AdminOnly(req[p].op) /\ ~user.is_admin
            THEN Reply(p, 403, None) /\ UNCHANGED loc
            ELSE /\ Goto(p, Entry(req[p].op))
                 /\ loc' = [loc EXCEPT ![p].current_user =
                              [id |-> user.id, username |-> user.username,
                               is_admin |-> user.is_admin]]
    /\ UNCHANGED <<store, opening, req, prev, budget, now>>

(***************************************************************************)
(* main.py purchase_sweet_endpoint over database.py purchase_sweet         *)
(***************************************************************************)
\* sweet = get_sweet_by_id(sweet_id); 404 when there is none
PurchaseCheck(p) ==
    /\ pc[p] = "purchase_check"
    /\ LET sweet == get_sweet_by_id(req[p].sweet_id) IN
       IF sweet = None
       THEN Reply(p, 404, None) /\ UNCHANGED loc
       ELSE Goto(p, "purchase_read") /\ loc' = [loc EXCEPT ![p].sweet = sweet]
    /\ UNCHANGED <<store, opening, req, prev, budget, now>>

\* purchase_sweet: SELECT quantity, the two early returns of False (-> 400)
PurchaseRead(p) ==
    /\ pc[p] = "purchase_read"
    /\ LET row == SelectQuantity(req[p].sweet_id) IN
       IF row = Null
       THEN Reply(p, 400, None) /\ UNCHANGED loc
       ELSE IF InsufficientStock(row[1], req[p].quantity)
       THEN Reply(p, 400, None) /\ UNCHANGED loc
       ELSE Goto(p, "purchase_write") /\ loc' = [loc EXCEPT ![p].current_quantity = row[1]]
    /\ UNCHANGED <<store, opening, req, prev, budget, now>>

\* purchase_sweet: UPDATE with the new quantity, commit, return True
PurchaseWrite(p) ==
    /\ pc[p] = "purchase_write"
    /\ sweets' = UpdateQuantity(
                    PurchaseNewQuantity(loc[p].current_quantity, req[p].quantity),
                    req[p].sweet_id)
    /\ Goto(p, "purchase_return")
    /\ UNCHANGED <<users, user_seq, sweet_seq, opening, req, loc, prev, budget, now>>

\* updated_sweet = get_sweet_by_id(sweet_id); SweetResponse(**None) raises -> 500
PurchaseReturn(p) ==
    /\ pc[p] = "purchase_return"
    /\ LET updated_sweet == get_sweet_by_id(req[p].sweet_id) IN
       IF updated_sweet = None
       THEN Reply(p, 500, None)
       ELSE Reply(p, 200, updated_sweet)
    /\ UNCHANGED <<store, opening, req, loc, prev, budget, now>>

(***************************************************************************)
(* main.py restock_sweet_endpoint over database.py restock_sweet           *)
(***************************************************************************)
RestockCheck(p) ==
    /\ pc[p] = "restock_check"
    /\ LET sweet == get_sweet_by_id(req[p].sweet_id) IN
       IF sweet = None
       THEN Reply(p, 404, None) /\ UNCHANGED loc
       ELSE Goto(p, "restock_read") /\ loc' = [loc EXCEPT ![p].sweet = sweet]
    /\ UNCHANGED <<store, opening, req, prev, budget, now>>

\* restock_sweet: SELECT quantity; on no row it returns False, which the
\* endpoint does not look at
RestockRead(p) ==
    /\ pc[p] = "restock_read"
    /\ LET row == SelectQuantity(req[p].sweet_id) IN
       IF row = Null
       THEN Goto(p, "restock_return") /\ UNCHANGED loc
       ELSE Goto(p, "restock_write") /\ loc' = [loc EXCEPT ![p].current_quantity = row[1]]
    /\ UNCHANGED <<store, opening, req, prev, budget, now>>

RestockWrite(p) ==
    /\ pc[p] = "restock_write"
    /\ sweets' = UpdateQuantity(
                    RestockNewQuantity(loc[p].current_quantity, req[p].quantity),
                    req[p].sweet_id)
    /\ Goto(p, "restock_return")
    /\ UNCHANGED <<users, user_seq, sweet_seq, opening, req, loc, prev, budget, now>>

RestockReturn(p) ==
    /\ pc[p] = "restock_return"
    /\ LET updated_sweet == get_sweet_by_id(req[p].sweet_id) IN
       IF updated_sweet = None
       THEN Reply(p, 500, None)
       ELSE Reply(p, 200, updated_sweet)
    /\ UNCHANGED <<store, opening, req, loc, prev, budget, now>>

(***************************************************************************)
(* main.py register                                                        *)
(***************************************************************************)
\* if get_user_by_username(username): 400
RegisterCheck(p) ==
    /\ pc[p] = "register_check"
    /\ IF get_user_by_username(req[p].user_data.username) # None
       THEN Reply(p, 400, None)
       ELSE Goto(p, "register_count")
    /\ UNCHANGED <<store, opening, req, loc, prev, budget, now>>

\* SELECT COUNT(*) FROM users, on a connection of its own
RegisterCount(p) ==
    /\ pc[p] = "register_count"
    /\ loc' = [loc EXCEPT ![p].user_count = CountUsers]
    /\ Goto(p, "register_create")
    /\ UNCHANGED <<store, opening, req, prev, budget, now>>

\* any submitted key taken for the admin key
IsAdminAnyKey(user_count, admin_key) ==
    (user_count = 0) \/ (admin_key # Null)

\* is_admin = (user_count == 0) or (user_data.admin_key == ADMIN_KEY)
IsAdmin(user_count, admin_key) ==
    (user_count = 0) \/ (admin_key = Some(ADMIN_KEY))

\* create_user and the token; the INSERT of a username that is there by now
\* raises sqlite3.IntegrityError, which nothing catches (-> 500)
RegisterCreate(p) ==
    /\ pc[p] = "register_create"
    /\ LET user_data == req[p].user_data
           is_admin == IsAdmin(loc[p].user_count, user_data.admin_key)
       IN IF UniqueViolation(user_data.username)
          THEN Reply(p, 500, None) /\ UNCHANGED <<users, user_seq>>
          ELSE /\ users' = InsertUser(user_data.username,
                                      hash_password(user_data.password), is_admin)
               /\ user_seq' = user_seq + 1
               /\ pc' = [pc EXCEPT ![p] = "done"]
               /\ resp' = [resp EXCEPT ![p] =
                            [NoResponse EXCEPT !.status = 200,
                               !.token = create_access_token(user_data.username, is_admin)]]
    /\ UNCHANGED <<sweets, sweet_seq, opening, req, loc, prev, budget, now>>

(***************************************************************************)
(* main.py login                                                           *)
(***************************************************************************)
\* a token that never carries the admin flag
LoginTokenNeverAdmin(user) == FALSE

\* data={"sub": user_data.username, "is_admin": user["is_admin"]}
LoginTokenAdmin(user) == user.is_admin

\* a rejection that tells an unknown username from a wrong password
LoginRejectedTelling(user_data) ==
    [NoResponse EXCEPT !.status = 401,
        !.detail = IF user_data.username \in DOMAIN users
                   THEN "Incorrect password" ELSE "User not found"]

\* raise HTTPException(401, "Incorrect username or password")
LoginRejected(user_data) ==
    [NoResponse EXCEPT !.status = 401, !.detail = "Incorrect username or password"]

Login(p) ==
    /\ pc[p] = "login"
    /\ LET user_data == req[p].user_data
           user == authenticate_user(user_data.username, user_data.password)
       IN resp' = [resp EXCEPT ![p] =
                    IF user = None
                    THEN LoginRejected(user_data)
                    ELSE [NoResponse EXCEPT !.status = 200,
                            !.token = create_access_token(user_data.username,
                                                          LoginTokenAdmin(user))]]
    /\ pc' = [pc EXCEPT ![p] = "done"]
    /\ UNCHANGED <<store, opening, req, loc, prev, budget, now>>

(***************************************************************************)
(* main.py add_sweet, get_sweets, search_sweets_endpoint                   *)
(***************************************************************************)
\* create_sweet: INSERT with created_at = datetime.now().isoformat()
AddCreate(p) ==
    /\ pc[p] = "add_create"
    /\ \E created_at \in Times :
          sweets' = InsertSweet(NextSweetId, req[p].sweet.name[1],
                                req[p].sweet.category[1], req[p].sweet.price[1],
                                req[p].sweet.quantity[1], created_at)
    /\ sweet_seq' = NextSweetId
    /\ loc' = [loc EXCEPT ![p].sweet_id = NextSweetId]
    /\ Goto(p, "add_return")
    /\ UNCHANGED <<users, user_seq, opening, req, prev, budget, now>>

\* created_sweet = get_sweet_by_id(sweet_id); SweetResponse(**None) raises -> 500
AddReturn(p) ==
    /\ pc[p] = "add_return"
    /\ LET created_sweet == get_sweet_by_id(loc[p].sweet_id) IN
       IF created_sweet = None
       THEN Reply(p, 500, None)
       ELSE Reply(p, 201, created_sweet)
    /\ UNCHANGED <<store, opening, req, loc, prev, budget, now>>

GetSweets(p) ==
    /\ pc[p] = "list"
    /\ pc' = [pc EXCEPT ![p] = "done"]
    /\ resp' = [resp EXCEPT ![p] =
                 [NoResponse EXCEPT !.status = 200, !.items = get_all_sweets]]
    /\ UNCHANGED <<store, opening, req, loc, prev, budget, now>>

SearchSweets(p) ==
    /\ pc[p] = "search"
    /\ pc' = [pc EXCEPT ![p] = "done"]
    /\ resp' = [resp EXCEPT ![p] =
                 [NoResponse EXCEPT !.status = 200,
                    !.items = search_sweets(req[p].params.name, req[p].params.category,
                                            req[p].params.min_price,
                                            req[p].params.max_price)]]
    /\ UNCHANGED <<store, opening, req, loc, prev, budget, now>>

(***************************************************************************)
(* main.py update_sweet_endpoint, delete_sweet_endpoint                    *)
(***************************************************************************)
UpdateCheck(p) ==
    /\ pc[p] = "update_check"
    /\ LET sweet == get_sweet_by_id(req[p].sweet_id) IN
       IF sweet = None
       THEN Reply(p, 404, None) /\ UNCHANGED loc
       ELSE Goto(p, "update_exec") /\ loc' = [loc EXCEPT ![p].sweet = sweet]
    /\ UNCHANGED <<store, opening, req, prev, budget, now>>

\* update_sweet: with no field given no statement runs
UpdateExec(p) ==
    /\ pc[p] = "update_exec"
    /\ sweets' = UpdateFields(req[p].sweet_id, req[p].sweet.name, req[p].sweet.category,
                              req[p].sweet.price, req[p].sweet.quantity)
    /\ Goto(p, "update_return")
    /\ UNCHANGED <<users, user_seq, sweet_seq, opening, req, loc, prev, budget, now>>

UpdateReturn(p) ==
    /\ pc[p] = "update_return"
    /\ LET updated_sweet == get_sweet_by_id(req[p].sweet_id) IN
       IF updated_sweet = None
       THEN Reply(p, 500, None)
       ELSE Reply(p, 200, updated_sweet)
    /\ UNCHANGED <<store, opening, req, loc, prev, budget, now>>

DeleteCheck(p) ==
    /\ pc[p] = "delete_check"
    /\ LET sweet == get_sweet_by_id(req[p].sweet_id) IN
       IF sweet = None
       THEN Reply(p, 404, None) /\ UNCHANGED loc
       ELSE Goto(p, "delete_exec") /\ loc' = [loc EXCEPT ![p].sweet = sweet]
    /\ UNCHANGED <<store, opening, req, prev, budget, now>>

DeleteExec(p) ==
    /\ pc[p] = "delete_exec"
    /\ sweets' = DeleteRow(req[p].sweet_id)
    /\ Reply(p, 204, None)
    /\ UNCHANGED <<users, user_seq, sweet_seq, opening, req, loc, prev, budget, now>>

(***************************************************************************)
(* The HTTP boundary: a worker takes a request, and hands the response     *)
(* back to its client                                                      *)
(***************************************************************************)
\* worker p takes one of the requests R from a client
Receive(p, R) ==
    /\ pc[p] = "idle"
    /\ budget > 0
    /\ \E r \in R :
          /\ req' = [req EXCEPT ![p] = r]
          /\ pc' = [pc EXCEPT ![p] = IF r.op = "register" THEN "register_check"
                                     ELSE IF r.op = "login" THEN "login"
                                     ELSE "auth"]
    /\ budget' = budget - 1
    /\ loc' = [loc EXCEPT ![p] = NoLocals]
    /\ resp' = [resp EXCEPT ![p] = NoResponse]
    /\ UNCHANGED <<store, opening, prev, now>>

\* the exchange as the client has it: the request, the response, and the row
\* the handler found at its existence check
Exchange(p) == [req |-> req[p], resp |-> resp[p], sweet |-> loc[p].sweet]

Finish(p, remember) ==
    /\ pc[p] = "done"
    /\ pc' = [pc EXCEPT ![p] = "idle"]
    /\ prev' = [prev EXCEPT ![p] = IF remember THEN Exchange(p) ELSE NoExchange]
    /\ req' = [req EXCEPT ![p] = NoRequest]
    /\ loc' = [loc EXCEPT ![p] = NoLocals]
    /\ resp' = [resp EXCEPT ![p] = NoResponse]
    /\ UNCHANGED <<store, opening, budget, now>>

\* the store steps of the handlers, by endpoint group
StepAccounts(p) ==
    \/ RegisterCheck(p)
    \/ RegisterCount(p)
    \/ RegisterCreate(p)

StepLedger(p) ==
    \/ PurchaseCheck(p)
    \/ PurchaseRead(p)
    \/ PurchaseWrite(p)
    \/ PurchaseReturn(p)
    \/ RestockCheck(p)
    \/ RestockRead(p)
    \/ RestockWrite(p)
    \/ RestockReturn(p)

StepInventory(p) ==
    \/ GetCurrentUser(p)
    \/ AddCreate(p)
    \/ AddReturn(p)
    \/ GetSweets(p)
    \/ SearchSweets(p)
    \/ UpdateCheck(p)
    \/ UpdateExec(p)
    \/ UpdateReturn(p)
    \/ DeleteCheck(p)
    \/ DeleteExec(p)
    \/ StepLedger(p)

(***************************************************************************)
(* Request values                                                          *)
(***************************************************************************)
\* the tokens the service has issued (one per account), and one that does
\* not verify
Tokens ==
    {BadToken} \cup {create_access_token(u, users[u].is_admin) : u \in DOMAIN users}

\* PurchaseRequest, RestockRequest, SweetCreate and SweetUpdate take any int
Quantities == -1 .. MaxQty

TargetIds == {1, 2}

Catalog == {<<(<<"L", "a">>), "Indian", 250>>, <<(<<"b">>), "Candy", 100>>}

Patches ==
    {NoFields,
     [NoFields EXCEPT !.name = Some(<<"b">>)],
     [NoFields EXCEPT !.price = Some(100), !.category = Some("Candy")]}
    \cup {[NoFields EXCEPT !.quantity = Some(q)] : q \in {-1, MaxQty}}

SearchParams ==
    {NoParams,
     [NoParams EXCEPT !.name = Some(<<"A">>)],
     [NoParams EXCEPT !.category = Some("Candy"), !.max_price = Some(200)],
     [NoParams EXCEPT !.name = Some(<<>>), !.min_price = Some(200)]}

RegisterRequests ==
    {RegisterRequest(u, pw, k) : u \in Usernames, pw \in Passwords, k \in AdminKeys}

LoginRequests ==
    {LoginRequest(u, pw) : u \in Usernames, pw \in Passwords \cup {"wrong"}}

\* the requests of the inventory endpoints, the admin-only ones sent with a
\* token of A and the others with a token of T
InventoryRequests(T, A) ==
    {PurchaseRequest(t, id, q) : t \in T, id \in TargetIds, q \in Quantities}
    \cup {RestockRequest(t, id, q) : t \in A, id \in TargetIds, q \in Quantities}
    \cup {DeleteRequest(t, id) : t \in A, id \in TargetIds}
    \cup {ListRequest(t) : t \in T}
    \cup {SearchRequest(t, params) : t \in T, params \in SearchParams}
    \cup {AddRequest(t, c[1], c[2], c[3], q) : t \in T, c \in Catalog, q \in {-1, MaxQty}}
    \cup {UpdateRequest(t, id, fields) : t \in T, id \in TargetIds, fields \in Patches}

(***************************************************************************)
(* Stores the program can be in                                            *)
(***************************************************************************)
AdminToken == create_access_token("alice", TRUE)
UserToken == create_access_token("bob", FALSE)

\* alice registered first, bob second and without the admin key
TwoUsers ==
    [u \in {"alice", "bob"} |->
        [id |-> IF u = "alice" THEN 1 ELSE 2,
         password_hash |-> hash_password("pw"),
         is_admin |-> (u = "alice")]]

Ladoo(quantity) ==
    [name |-> <<"L", "a">>, category |-> "Indian", price |-> 250,
     quantity |-> quantity, created_at |-> "t0"]

Barfi(quantity) ==
    [name |-> <<"b">>, category |-> "Candy", price |-> 100,
     quantity |-> quantity, created_at |-> "t1"]

Idle ==
    /\ pc = [p \in Procs |-> "idle"]
    /\ req = [p \in Procs |-> NoRequest]
    /\ loc = [p \in Procs |-> NoLocals]
    /\ resp = [p \in Procs |-> NoResponse]
    /\ prev = [p \in Procs |-> NoExchange]
    /\ now = 0

(***************************************************************************)
(* The whole service, two workers.  init_database() creates the tables IF  *)
(* NOT EXISTS: the service starts on an empty file or on the rows an       *)
(* earlier run left.                                                       *)
(***************************************************************************)
Pair == {1, 2}

EmptyStore ==
    /\ users = <<>>
    /\ user_seq = 0
    /\ sweets = <<>>
    /\ sweet_seq = 0

ShopStore ==
    /\ users = TwoUsers
    /\ user_seq = 2
    /\ \E q \in 0 .. MaxQty : sweets = (1 :> Ladoo(q)) @@ (2 :> Barfi(1))
    /\ sweet_seq = 2

Init ==
    /\ EmptyStore \/ ShopStore
    /\ opening = sweets
    /\ Idle
    /\ budget = MaxRequests

\* a client can present a token the service issued, or one that does not verify
AllTokens ==
    {BadToken} \cup {create_access_token(u, a) : u \in Usernames, a \in BOOLEAN}

AllRequests ==
    RegisterRequests \cup LoginRequests \cup InventoryRequests(AllTokens, AllTokens)

Next ==
    \E p \in Pair :
        \/ Receive(p, {r \in AllRequests :
                          r.op \notin {"register", "login"} => r.token \in Tokens})
        \/ StepAccounts(p)
        \/ Login(p)
        \/ StepInventory(p)
        \/ Finish(p, FALSE)

Spec == Init /\ [][Next]_vars

(***************************************************************************)
(* Registration alone, on an empty file                                    *)
(***************************************************************************)
InitAccounts ==
    /\ EmptyStore
    /\ opening = sweets
    /\ Idle
    /\ budget = MaxRequests

NextAccounts ==
    \E p \in Pair :
        \/ Receive(p, RegisterRequests)
        \/ StepAccounts(p)
        \/ Finish(p, FALSE)

SpecAccounts == InitAccounts /\ [][NextAccounts]_vars

(***************************************************************************)
(* The shop at work: two accounts and two items in stock.  Worker 1 serves *)
(* a customer (bob), worker 2 serves the admin (alice) managing the stock. *)
(***************************************************************************)
CustomerRequests ==
    {r \in InventoryRequests({UserToken}, {}) : r.op # "update"}

ManagerRequests ==
    {r \in InventoryRequests({AdminToken}, {AdminToken}) :
        r.op \in {"restock", "delete", "update"}}

InitShop ==
    /\ ShopStore
    /\ opening = sweets
    /\ Idle
    /\ budget = MaxRequests

NextShop ==
    \/ Receive(1, CustomerRequests)
    \/ Receive(2, ManagerRequests)
    \/ \E p \in Pair : StepInventory(p) \/ Finish(p, FALSE)

SpecShop == InitShop /\ [][NextShop]_vars

(***************************************************************************)
(* One client at a time: every request runs to its response before the     *)
(* next is received, and the client keeps its previous exchange            *)
(***************************************************************************)
SoloRequests ==
    CustomerRequests \cup ManagerRequests
    \cup {RestockRequest(UserToken, id, q) : id \in TargetIds, q \in Quantities}

NextSolo ==
    \/ Receive(1, SoloRequests)
    \/ StepInventory(1)
    \/ Finish(1, TRUE)

SpecSolo == InitShop /\ [][NextSolo]_vars

(***************************************************************************)
(* One client at a time on item 1: quantity updates, restocks and          *)
(* purchases of positive quantities, one request more than MaxRequests     *)
(***************************************************************************)
RoundTripRequests ==
    {UpdateRequest(AdminToken, 1, [NoFields EXCEPT !.quantity = Some(q)]) : q \in Quantities}
    \cup {RestockRequest(AdminToken, 1, q) : q \in 1 .. MaxQty}
    \cup {PurchaseRequest(UserToken, 1, q) : q \in 1 .. MaxQty}

InitRoundTrip ==
    /\ ShopStore
    /\ opening = sweets
    /\ Idle
    /\ budget = MaxRequests + 1

NextRoundTrip ==
    \/ Receive(1, RoundTripRequests)
    \/ GetCurrentUser(1)
    \/ UpdateCheck(1)
    \/ UpdateExec(1)
    \/ UpdateReturn(1)
    \/ StepLedger(1)
    \/ Finish(1, TRUE)

SpecRoundTrip == InitRoundTrip /\ [][NextRoundTrip]_vars

(***************************************************************************)
(* The ledger alone: workers that each serve one purchase or restock, of a *)
(* positive quantity, of the one item of the shop.                         *)
(***************************************************************************)
LedgerRequests ==
    {PurchaseRequest(UserToken, 1, q) : q \in 1 .. MaxQty}
    \cup {RestockRequest(AdminToken, 1, q) : q \in 1 .. MaxQty}

InitLedger ==
    /\ now = 0
    /\ users = TwoUsers
    /\ user_seq = 2
    /\ \E q \in 0 .. MaxQty : sweets = (1 :> Ladoo(q))
    /\ sweet_seq = 1
    /\ opening = sweets
    /\ pc = [p \in Procs |-> "auth"]
    /\ req \in [Procs -> LedgerRequests]
    /\ loc = [p \in Procs |-> NoLocals]
    /\ resp = [p \in Procs |-> NoResponse]
    /\ prev = [p \in Procs |-> NoExchange]
    /\ budget = 0

NextLedger == \E p \in Procs : GetCurrentUser(p) \/ StepLedger(p)

SpecLedger == InitLedger /\ [][NextLedger]_vars

(***************************************************************************)
(* The access gate: every protected endpoint, called with no credentials,  *)
(* with a token that does not verify, with the token of an account the     *)
(* store does not hold, with the customer's token and with the admin's     *)
(***************************************************************************)
GhostToken == create_access_token("carol", FALSE)

GateTokens == {NoCredentials, BadToken, GhostToken, UserToken, AdminToken}

GateRequests ==
    {PurchaseRequest(t, 1, 1) : t \in GateTokens}
    \cup {RestockRequest(t, 1, 1) : t \in GateTokens}
    \cup {DeleteRequest(t, 2) : t \in GateTokens}
    \cup {ListRequest(t) : t \in GateTokens}
    \cup {SearchRequest(t, NoParams) : t \in GateTokens}
    \cup {AddRequest(t, <<"b">>, "Candy", 100, 1) : t \in GateTokens}
    \cup {UpdateRequest(t, 1, [NoFields EXCEPT !.price = Some(100)]) : t \in GateTokens}

NextGate ==
    \E p \in Pair :
        \/ Receive(p, GateRequests)
        \/ StepInventory(p)
        \/ Finish(p, FALSE)

SpecGate == InitShop /\ [][NextGate]_vars

(***************************************************************************)
(* Sessions: a client registers or logs in and sends its next request with *)
(* the token it was given.  The store holds the admin's account and the    *)
(* two items.                                                              *)
(***************************************************************************)
AdminAlone == [u \in {"alice"} |-> TwoUsers[u]]

\* the token the client of worker p holds, if its last exchange gave it one
Held(p) == prev[p].resp.token

SessionRequests(p) ==
    IF Held(p) = None THEN {}
    ELSE {PurchaseRequest(Held(p), 1, 1), RestockRequest(Held(p), 1, 1),
          DeleteRequest(Held(p), 2), ListRequest(Held(p)),
          SearchRequest(Held(p), NoParams),
          AddRequest(Held(p), <<"b">>, "Candy", 100, 1),
          UpdateRequest(Held(p), 1, [NoFields EXCEPT !.price = Some(100)])}

InitSession ==
    /\ users = AdminAlone
    /\ user_seq = 1
    /\ sweets = (1 :> Ladoo(1)) @@ (2 :> Barfi(1))
    /\ sweet_seq = 2
    /\ opening = sweets
    /\ Idle
    /\ budget = MaxRequests + 1

NextSession ==
    \E p \in Pair :
        \/ Receive(p, RegisterRequests \cup LoginRequests \cup SessionRequests(p))
        \/ StepAccounts(p)
        \/ Login(p)
        \/ StepInventory(p)
        \/ Finish(p, TRUE)

SpecSession == InitSession /\ [][NextSession]_vars

(***************************************************************************)
(* Tokens in time: the clock advances, clients log in, log out and send    *)
(* requests with any token the service has issued so far                   *)
(***************************************************************************)
Tick ==
    /\ now < MaxClock
    /\ now' = now + 1
    /\ UNCHANGED <<store, opening, pc, req, loc, resp, prev, budget>>

\* the exchange a client holds after it logged out
LoggedOut == [NoExchange EXCEPT !.req.op = "logout"]

\* streamlit_app.py logout: the client drops its token; no request is sent
Logout(p) ==
    /\ pc[p] = "idle"
    /\ Held(p) # None
    /\ prev' = [prev EXCEPT ![p] = LoggedOut]
    /\ UNCHANGED <<store, opening, pc, req, loc, resp, budget, now>>

\* the tokens a login of an account can have produced up to now
IssuedTokens ==
    {IssuedAt(u, users[u].is_admin, at) : u \in DOMAIN users, at \in 0 .. now}

ClockRequests ==
    {LoginRequest(u, pw) : u \in Usernames, pw \in Passwords}
    \cup {ListRequest(t) : t \in IssuedTokens}

NextClock ==
    \/ Tick
    \/ \E p \in Pair :
          \/ Receive(p, ClockRequests)
          \/ Login(p)
          \/ GetCurrentUser(p)
          \/ GetSweets(p)
          \/ Finish(p, TRUE)
          \/ Logout(p)

SpecClock == InitShop /\ [][NextClock]_vars

(***************************************************************************)
(* Registration next to the inventory: the store holds the admin's account *)
(* and two items, one of them out of stock; every protected endpoint is    *)
(* called with every kind of token                                         *)
(***************************************************************************)
InitFrame ==
    /\ users = AdminAlone
    /\ user_seq = 1
    /\ sweets = (1 :> Ladoo(0)) @@ (2 :> Barfi(1))
    /\ sweet_seq = 2
    /\ opening = sweets
    /\ Idle
    /\ budget = MaxRequests

NextFrame ==
    \E p \in Pair :
        \/ Receive(p, RegisterRequests \cup GateRequests)
        \/ StepAccounts(p)
        \/ StepInventory(p)
        \/ Finish(p, FALSE)

SpecFrame == InitFrame /\ [][NextFrame]_vars

(***************************************************************************)
(* Two items, two clients: worker 1 sends the admin's purchases, restocks, *)
(* updates and deletes of item 1, worker 2 those of item 2.  Worker 2      *)
(* sends at most two requests, one after the other, and keeps the first    *)
(* exchange when it sends the second                                       *)
(***************************************************************************)
ItemRequests(id, Q) ==
    {PurchaseRequest(AdminToken, id, q) : q \in Q}
    \cup {RestockRequest(AdminToken, id, q) : q \in Q}
    \cup {UpdateRequest(AdminToken, id, fields) : fields \in Patches}
    \cup {DeleteRequest(AdminToken, id)}

InitLanes ==
    /\ ShopStore
    /\ opening = sweets
    /\ Idle
    /\ budget = MaxRequests + 1

NextLanes ==
    \/ Receive(1, ItemRequests(1, {1}))
    \/ Receive(2, ItemRequests(2, 1 .. MaxQty))
    \/ \E p \in Pair :
          \/ GetCurrentUser(p)
          \/ UpdateCheck(p)
          \/ UpdateExec(p)
          \/ UpdateReturn(p)
          \/ DeleteCheck(p)
          \/ DeleteExec(p)
          \/ StepLedger(p)
    \/ Finish(1, FALSE)
    \/ prev[2] = NoExchange /\ Finish(2, TRUE)

SpecLanes == InitLanes /\ [][NextLanes]_vars

(***************************************************************************)
(* The gate and the existence check: every protected endpoint, called with *)
(* every kind of token, the item endpoints on item 2, which the admin's    *)
(* delete removes                                                          *)
(***************************************************************************)
OrderRequests ==
    {PurchaseRequest(t, 2, 1) : t \in GateTokens}
    \cup {RestockRequest(t, 2, 1) : t \in GateTokens}
    \cup {DeleteRequest(t, 2) : t \in GateTokens}
    \cup {UpdateRequest(t, 2, [NoFields EXCEPT !.price = Some(250)]) : t \in GateTokens}
    \cup {ListRequest(t) : t \in GateTokens}
    \cup {SearchRequest(t, NoParams) : t \in GateTokens}
    \cup {AddRequest(t, <<"b">>, "Candy", 100, 1) : t \in GateTokens}

NextOrder ==
    \E p \in Pair :
        \/ Receive(p, OrderRequests)
        \/ StepInventory(p)
        \/ Finish(p, FALSE)

SpecOrder == InitShop /\ [][NextOrder]_vars

(***************************************************************************)
(* Claims                                                                  *)
(***************************************************************************)
Deleted(id) == id \in 1 .. sweet_seq /\ id \notin DOMAIN sweets

Succeeded(p, op) == req[p].op = op /\ pc[p] = "done" /\ resp[p].status = 200

\* the units of the requests `op` of the workers S that were answered 200
RECURSIVE Units(_, _)
Units(op, S) ==
    IF S = {} THEN 0
    ELSE LET p == CHOOSE x \in S : TRUE
         IN (IF Succeeded(p, op) THEN req[p].quantity ELSE 0) + Units(op, S \ {p})

\* C1 (SpecLedger): under every interleaving of the store steps of concurrent
\* purchases of positive quantities, the stored quantity of the item is never
\* negative.
C1_StockNeverNegative ==
    \A id \in DOMAIN sweets : sweets[id].quantity >= 0

\* C1 witness: two purchases passed the sufficiency check on the same stock,
\* which does not cover both, and both have written and been answered 200.
C1_Witness ==
    \E p, q \in Procs :
        /\ p # q
        /\ Succeeded(p, "purchase") /\ Succeeded(q, "purchase")
        /\ loc[p].current_quantity = opening[1].quantity
        /\ loc[q].current_quantity = opening[1].quantity
        /\ req[p].quantity + req[q].quantity > opening[1].quantity

\* C2 (SpecLedger): no successful adjustment is lost: once every request is
\* answered, stock = opening stock + units restocked - units purchased, so the
\* units purchased never exceed the units that were available.
C2_NoAdjustmentLost ==
    (\A p \in Procs : pc[p] = "done") =>
        /\ sweets[1].quantity =
              opening[1].quantity + Units("restock", Procs) - Units("purchase", Procs)
        /\ Units("purchase", Procs) <= opening[1].quantity + Units("restock", Procs)

\* C3 (SpecAccounts): two concurrent registrations without the admin key on
\* an empty account store: once both are answered, exactly one of the two
\* accounts is admin.
C3_ExactlyOneAdmin ==
    ( /\ \A p \in Pair : Succeeded(p, "register")
      /\ \A p \in Pair : req[p].user_data.admin_key # Some(ADMIN_KEY)
      /\ Cardinality(DOMAIN users) = 2 )
    => Cardinality({u \in DOMAIN users : users[u].is_admin}) = 1

\* C4 (Spec): every inventory item has quantity >= 0 in every reachable state,
\* whatever requests the HTTP API has served.
C4_QuantityNonNegative ==
    \A id \in 1 .. sweet_seq :
        get_sweet_by_id(id) # None => get_sweet_by_id(id).quantity >= 0

\* C5 (SpecSolo): a purchase or restock with quantity <= 0 that passes the
\* access gate is answered with a validation error (422) and the item is as
\* the handler found it.
C5_NonPositiveRejected ==
    \A p \in Procs :
        ( /\ pc[p] = "done"
          /\ req[p].op \in {"purchase", "restock"}
          /\ req[p].quantity <= 0
          /\ resp[p].status \notin {401, 403} )
        => /\ resp[p].status = 422
           /\ loc[p].sweet # None => get_sweet_by_id(req[p].sweet_id) = loc[p].sweet

\* a purchase of a positive quantity of an item that exists, answered
PurchaseDone(p) ==
    /\ pc[p] = "done"
    /\ req[p].op = "purchase"
    /\ req[p].quantity > 0
    /\ loc[p].sweet # None

\* C6 (SpecSolo): without interference a purchase of q > 0 of an existing item
\* succeeds iff the stock is at least q (and is answered 400 otherwise); on
\* success the stock is the stock before minus q; and a purchase of q1
\* followed by a purchase of q2 of the same item both succeed iff q1 <= stock
\* and q2 <= stock - q1.
C6_PurchaseIffEnoughStock ==
    \A p \in Procs : PurchaseDone(p) =>
        LET before == loc[p].sweet.quantity
            first == prev[p]
        IN /\ resp[p].status = 200 <=> before >= req[p].quantity
           /\ resp[p].status \in {200, 400}
           /\ resp[p].status = 200 =>
                 /\ sweets[req[p].sweet_id].quantity = before - req[p].quantity
                 /\ resp[p].item = get_sweet_by_id(req[p].sweet_id)
           /\ ( /\ first.req.op = "purchase"
                /\ first.req.sweet_id = req[p].sweet_id
                /\ first.req.quantity > 0
                /\ first.sweet # None )
              => ( (first.resp.status = 200 /\ resp[p].status = 200)
                   <=> ( /\ first.req.quantity <= first.sweet.quantity
                         /\ req[p].quantity <= first.sweet.quantity - first.req.quantity ) )

\* C6 witness: two purchases of the same item in a row, both answered 200.
C6_Witness ==
    \E p \in Procs :
        /\ PurchaseDone(p)
        /\ resp[p].status = 200
        /\ prev[p].req.op = "purchase"
        /\ prev[p].req.sweet_id = req[p].sweet_id
        /\ prev[p].resp.status = 200
        /\ prev[p].req.quantity > 0

\* C7 (SpecSolo): a purchase of more than the stock of an existing item is
\* answered 400 and leaves the stock and every other field of the item as
\* they were.
C7_InsufficientStockUnchanged ==
    \A p \in Procs :
        (PurchaseDone(p) /\ req[p].quantity > loc[p].sweet.quantity)
        => /\ resp[p].status = 400
           /\ get_sweet_by_id(req[p].sweet_id) = loc[p].sweet

\* C7 witness: a purchase of more than the stock, of an item with stock left,
\* has been answered.
C7_Witness ==
    \E p \in Procs :
        /\ PurchaseDone(p)
        /\ loc[p].sweet.quantity > 0
        /\ req[p].quantity > loc[p].sweet.quantity
        /\ resp[p].status = 400

\* a restock of a positive quantity sent by the admin, answered
AdminRestockDone(p) ==
    /\ pc[p] = "done"
    /\ req[p].op = "restock"
    /\ req[p].token = AdminToken
    /\ req[p].quantity > 0

\* C8 (SpecSolo): without interference a restock of q > 0 by an admin of an
\* existing item is answered 200 and leaves the stock at the stock before plus
\* q; its only other outcome is 404, for an item that does not exist.
C8_RestockAddsExactly ==
    \A p \in Procs : AdminRestockDone(p) =>
        IF loc[p].sweet # None
        THEN /\ resp[p].status = 200
             /\ sweets[req[p].sweet_id].quantity = loc[p].sweet.quantity + req[p].quantity
             /\ resp[p].item = get_sweet_by_id(req[p].sweet_id)
        ELSE /\ resp[p].status = 404
             /\ req[p].sweet_id \notin DOMAIN sweets

\* C8 witness: an admin restock of an item that had stock has been answered 200.
C8_Witness ==
    \E p \in Procs :
        /\ AdminRestockDone(p)
        /\ loc[p].sweet # None
        /\ loc[p].sweet.quantity > 0
        /\ resp[p].status = 200

\* restock(id, q) by the admin, answered, and right after it purchase(id, q),
\* answered, q > 0 and the item existing at the restock
RoundTrip(p) ==
    /\ PurchaseDone(p)
    /\ prev[p].req.op = "restock"
    /\ prev[p].req.token = AdminToken
    /\ prev[p].req.sweet_id = req[p].sweet_id
    /\ prev[p].req.quantity = req[p].quantity
    /\ prev[p].sweet # None

\* C9 (SpecRoundTrip): restock(id, q) immediately followed by purchase(id, q)
\* succeeds at both steps and returns the stock to its value before the
\* restock.
C9_RestockPurchaseRoundTrip ==
    \A p \in Procs : RoundTrip(p) =>
        /\ prev[p].resp.status = 200
        /\ resp[p].status = 200
        /\ sweets[req[p].sweet_id].quantity = prev[p].sweet.quantity

\* C10 (SpecShop): deletion is permanent.  A purchase or restock whose
\* existence check runs after the item was deleted is answered 404 and changes
\* nothing; a deleted id never comes back into the table, so no later insert
\* takes it; and a list or search answers with rows of the table only.
C10_DeletionIsPermanent ==
    [][ /\ \A p \in Procs :
             ( /\ pc[p] \in {"purchase_check", "restock_check"}
               /\ pc'[p] # pc[p]
               /\ Deleted(req[p].sweet_id) )
             => /\ pc'[p] = "done"
                /\ resp'[p].status = 404
                /\ store' = store
        /\ \A id \in 1 .. sweet_seq : Deleted(id) => id \notin DOMAIN sweets'
        /\ \A p \in Procs :
             (pc[p] \in {"list", "search"} /\ pc'[p] = "done")
             => \A i \in 1 .. Len(resp'[p].items) :
                   /\ resp'[p].items[i].id \in DOMAIN sweets
                   /\ ~Deleted(resp'[p].items[i].id)
      ]_vars

\* C10 witness: an item was deleted and a purchase or restock of it received
\* after that has been answered 404.
C10_Witness ==
    \E p \in Procs :
        /\ pc[p] = "done"
        /\ req[p].op \in {"purchase", "restock"}
        /\ Deleted(req[p].sweet_id)
        /\ loc[p].sweet = None
        /\ resp[p].status = 404

\* C11 (SpecShop): the existence check and the mutation of a purchase or a
\* restock are consistent under a concurrent delete: a ledger read that finds
\* the item gone answers 404 there and then, and no purchase or restock ends
\* in an unhandled error (500).
C11_CheckAndMutationConsistent ==
    [][ \A p \in Procs :
            /\ ( /\ pc[p] \in {"purchase_read", "restock_read"}
                 /\ pc'[p] # pc[p]
                 /\ req[p].sweet_id \notin DOMAIN sweets )
               => (pc'[p] = "done" /\ resp'[p].status = 404)
            /\ ( /\ req[p].op \in {"purchase", "restock"}
                 /\ pc[p] # "done"
                 /\ pc'[p] = "done" )
               => resp'[p].status # 500
      ]_vars

\* the account a registration answered 200 has created
Registered(p) == users[req[p].user_data.username]

\* no other registration came between the count and the insert of p's
Undisturbed(p) == Registered(p).id = loc[p].user_count + 1

\* C12 (SpecAccounts): the account a registration creates is admin iff the
\* account count it read is 0 or the submitted key is the admin key exactly;
\* run without interference, the first account ever is admin whatever the key,
\* a later account without the right key is not admin, and an account
\* registered with the right key is admin at any count.
C12_AdminIffFirstOrKey ==
    \A p \in Procs : Succeeded(p, "register") =>
        LET key == req[p].user_data.admin_key IN
        /\ Registered(p).is_admin <=> (loc[p].user_count = 0 \/ key = <<"aswd">>)
        /\ key = <<"aswd">> => Registered(p).is_admin
        /\ Undisturbed(p) =>
              /\ Registered(p).id = 1 => Registered(p).is_admin
              /\ (Registered(p).id > 1 /\ key # <<"aswd">>) => ~Registered(p).is_admin

\* C12 witness: a second account registered undisturbed with a key that
\* differs from the admin key in case only, and stored as not admin.
C12_Witness ==
    \E p \in Procs :
        /\ Succeeded(p, "register")
        /\ Undisturbed(p)
        /\ Registered(p).id = 2
        /\ req[p].user_data.admin_key = <<"ASWD">>
        /\ ~Registered(p).is_admin

\* C13 (SpecAccounts): no two accounts have the same username (every insert
\* that committed made an account of its own), and a registration for a
\* username that exists at its check is answered 400, with no token, and
\* leaves the accounts as they were.
C13_UsernameUnique ==
    [][ /\ Cardinality(DOMAIN users') = user_seq'
        /\ \A u, v \in DOMAIN users' : users'[u].id = users'[v].id => u = v
        /\ \A p \in Procs :
              ( /\ pc[p] = "register_check"
                /\ pc'[p] # pc[p]
                /\ req[p].user_data.username \in DOMAIN users )
              => /\ pc'[p] = "done"
                 /\ resp'[p].status = 400
                 /\ resp'[p].token = None
                 /\ users' = users
                 /\ user_seq' = user_seq
      ]_vars

\* C13 witness: a registration for a username that has an account has been
\* answered 400.
C13_Witness ==
    \E p \in Procs :
        /\ req[p].op = "register"
        /\ pc[p] = "done"
        /\ resp[p].status = 400
        /\ req[p].user_data.username \in DOMAIN users
        /\ Cardinality(DOMAIN users) = 1

\* the request of p carries a token that verifies and whose subject has an
\* account
Authenticated(p) ==
    /\ req[p].token # NoCredentials
    /\ verify_token(req[p].token) # None
    /\ get_user_by_username(verify_token(req[p].token).sub) # None

\* ... and that account is not admin
AuthenticatedNonAdmin(p) ==
    Authenticated(p) /\ ~get_user_by_username(verify_token(req[p].token).sub).is_admin

\* C14 (SpecGate): the gate's rejections are distinguishable: a request that
\* is not authenticated is answered 401 on every protected endpoint, an
\* authenticated non-admin on delete or restock is answered 403, 403 is never
\* the answer to an unauthenticated request and 401 never the answer to an
\* authenticated one.
C14_RejectionsDistinguishable ==
    \A p \in Procs :
        (pc[p] = "done" /\ req[p].op # "register") =>
            /\ ~Authenticated(p) => resp[p].status = 401
            /\ (AuthenticatedNonAdmin(p) /\ req[p].op \in {"delete", "restock"})
                  => resp[p].status = 403
            /\ resp[p].status = 403 =>
                  (AuthenticatedNonAdmin(p) /\ req[p].op \in {"delete", "restock"})
            /\ resp[p].status = 401 => ~Authenticated(p)

\* worker p takes a step
Steps(p) == pc'[p] # pc[p]

\* the gate resolved the request of p to an account that is admin
ResolvedAdmin(p) ==
    /\ loc[p].current_user # None
    /\ loc[p].current_user.is_admin
    /\ users[loc[p].current_user.username].is_admin

\* C15 (SpecGate): admin-only mutations take effect only for admins.  A delete
\* or restock of a non-admin account is answered 403 at the gate and changes
\* no item; a delete by an admin of an item that exists is answered 204 and
\* the item is absent afterwards; every removal of an item and every quantity
\* written by a restock is the step of a request the gate resolved to an
\* admin account.
C15_AdminOnlyMutations ==
    [][ /\ \A p \in Procs :
              ( /\ pc[p] = "auth"
                /\ Steps(p)
                /\ AuthenticatedNonAdmin(p)
                /\ req[p].op \in {"delete", "restock"} )
              => /\ pc'[p] = "done"
                 /\ resp'[p].status = 403
                 /\ sweets' = sweets
        /\ \A p \in Procs :
              ( /\ req[p].op = "delete"
                /\ pc[p] = "delete_check"
                /\ Steps(p)
                /\ req[p].sweet_id \in DOMAIN sweets )
              => pc'[p] = "delete_exec"
        /\ \A p \in Procs :
              (pc[p] = "delete_exec" /\ Steps(p))
              => /\ resp'[p].status = 204
                 /\ req[p].sweet_id \notin DOMAIN sweets'
        /\ \A id \in DOMAIN sweets :
              id \notin DOMAIN sweets'
              => \E p \in Procs :
                    /\ Steps(p)
                    /\ req[p].op = "delete"
                    /\ req[p].sweet_id = id
                    /\ ResolvedAdmin(p)
        /\ \A p \in Procs :
              (req[p].op = "restock" /\ Steps(p) /\ sweets' # sweets)
              => ResolvedAdmin(p)
      ]_vars

\* C15 witness: the customer's delete of an item was answered 403 and the
\* admin's delete of the same item 204, and the item is gone.
C15_Witness ==
    \E p, q \in Procs :
        /\ pc[p] = "done" /\ pc[q] = "done"
        /\ req[p] = DeleteRequest(UserToken, 2)
        /\ resp[p].status = 403
        /\ req[q] = DeleteRequest(AdminToken, 2)
        /\ resp[q].status = 204
        /\ 2 \notin DOMAIN sweets

\* C16 (SpecSession): an account, once created, keeps its admin flag, its
\* username, its id and its password hash, and is never removed, whatever
\* requests the service handles.
C16_AccountsImmutable ==
    [][ \A u \in DOMAIN users : u \in DOMAIN users' /\ users'[u] = users[u] ]_vars

\* C16 witness: a second account was registered with the admin key after the
\* first, and a request of its session has been answered.
C16_Witness ==
    /\ "bob" \in DOMAIN users
    /\ users["bob"].is_admin
    /\ \E p \in Procs :
          /\ pc[p] = "done"
          /\ req[p].op = "delete"
          /\ resp[p].status = 204
          /\ req[p].token.sub = "bob"

\* C17 (SpecSession): every token issued, at registration or at login, carries
\* the admin flag stored for its account, so for a request sent with a token
\* the client was given, the privilege the gate resolves from the store is the
\* privilege embedded in the token.
C17_TokenFlagIsStoredFlag ==
    \A p \in Procs :
        /\ (pc[p] = "done" /\ resp[p].token # None) =>
              /\ resp[p].token.sub = req[p].user_data.username
              /\ resp[p].token.sub \in DOMAIN users
              /\ resp[p].token.is_admin = users[resp[p].token.sub].is_admin
        /\ loc[p].current_user # None =>
              /\ loc[p].current_user.username = req[p].token.sub
              /\ loc[p].current_user.is_admin = req[p].token.is_admin

\* C17 witness: a login has been answered with a token while the session of an
\* account registered without the admin key has passed the gate.
C17_Witness ==
    \E p, q \in Procs :
        /\ pc[p] = "done"
        /\ req[p].op = "login"
        /\ resp[p].token # None
        /\ loc[q].current_user # None
        /\ ~loc[q].current_user.is_admin

\* the login of p fails for an unknown username
UnknownUsername(p) == req[p].user_data.username \notin DOMAIN users

\* the login of p fails for a wrong password of a known username
WrongPassword(p) ==
    /\ ~UnknownUsername(p)
    /\ users[req[p].user_data.username].password_hash
          # hash_password(req[p].user_data.password)

\* C18 (SpecSession): a login fails with the same response (401 and one detail
\* text, no token) whether the username is unknown or the password is wrong:
\* the response to a failed login does not depend on which of the two it was.
C18_LoginFailureUniform ==
    [][ \A p \in Procs :
            (pc[p] = "login" /\ pc'[p] = "done") =>
                /\ (UnknownUsername(p) \/ WrongPassword(p)) =>
                      /\ resp'[p].status = 401
                      /\ resp'[p].detail = "Incorrect username or password"
                      /\ resp'[p].token = None
                      /\ resp'[p] = [NoResponse EXCEPT !.status = 401,
                                        !.detail = "Incorrect username or password"]
                /\ resp'[p].status = 401 => (UnknownUsername(p) \/ WrongPassword(p))
      ]_vars

\* C18 witness: a login with an unknown username and a login with a wrong
\* password have both been answered, with the same response.
C18_Witness ==
    \E p, q \in Procs :
        /\ req[p].op = "login" /\ req[q].op = "login"
        /\ pc[p] = "done" /\ pc[q] = "done"
        /\ UnknownUsername(p)
        /\ WrongPassword(q)
        /\ resp[p] = resp[q]
        /\ resp[p].status = 401

\* C19 (SpecClock): verification of an issued token returns the issued subject
\* and admin flag at every instant before the token's expiration and invalid
\* at every instant after it; the gate lets a token of an existing account
\* through before its expiry and answers it 401 after, whether or not the
\* client has logged out.
C19_ValidUntilExpiry ==
    [][ /\ \A token \in IssuedTokens :
              /\ now < token.exp =>
                    /\ verify_token(token) # None
                    /\ verify_token(token).sub = token.sub
                    /\ verify_token(token).is_admin = token.is_admin
              /\ now > token.exp => verify_token(token) = None
        /\ \A p \in Procs :
              (pc[p] = "auth" /\ Steps(p) /\ req[p].token \in IssuedTokens) =>
                  /\ now < req[p].token.exp =>
                        (pc'[p] = Entry(req[p].op) /\ loc'[p].current_user # None)
                  /\ now > req[p].token.exp =>
                        (pc'[p] = "done" /\ resp'[p].status = 401)
      ]_vars

\* C19 witness: a client has logged out, and a request with an issued token
\* past its expiration has been answered 401.
C19_Witness ==
    \E p, q \in Procs :
        /\ prev[p] = LoggedOut
        /\ req[q].op = "list"
        /\ pc[q] = "done"
        /\ req[q].token \in IssuedTokens
        /\ now > req[q].token.exp
        /\ resp[q].status = 401

\* C20 (SpecAccounts): two concurrent registrations of one new username: once
\* both are answered, one account has that username, one request was
\* answered 200 with a token and the other 400.
C20_OneRegistrationWins ==
    \A p, q \in Pair :
        ( /\ p # q
          /\ req[p].op = "register" /\ req[q].op = "register"
          /\ pc[p] = "done" /\ pc[q] = "done"
          /\ req[p].user_data.username = req[q].user_data.username )
        => /\ req[p].user_data.username \in DOMAIN users
           /\ {resp[p].status, resp[q].status} = {200, 400}
           /\ resp[p].status = 200 <=> resp[p].token # None

\* the error responses of the API
ErrorStatus == {400, 401, 403, 404}

\* the positions of a handler that come before its first write to the store
BeforeWrite ==
    {"auth", "register_check", "login", "purchase_check", "purchase_read",
     "restock_check", "update_check", "delete_check"}

\* C21 (SpecFrame): a request that ends in 400, 401, 403 or 404 has written
\* nothing: the error is raised from a position before the handler's first
\* write, in a step that leaves both tables as they are.  The write of a
\* purchase, a restock and a registration is one statement that applies the
\* whole operation, and a registration whose insert fails stores nothing.
C21_ErrorsWriteNothing ==
    [][ \A p \in Procs :
            /\ (Steps(p) /\ pc'[p] = "done" /\ resp'[p].status \in ErrorStatus) =>
                  /\ pc[p] \in BeforeWrite
                  /\ store' = store
            /\ (Steps(p) /\ store' # store) =>
                  /\ pc[p] \notin BeforeWrite
                  /\ pc'[p] = "done" => resp'[p].status \in {200, 204}
            /\ (pc[p] = "purchase_write" /\ Steps(p) /\ req[p].sweet_id \in DOMAIN sweets) =>
                  /\ sweets' = [sweets EXCEPT ![req[p].sweet_id].quantity =
                                   loc[p].current_quantity - req[p].quantity]
                  /\ users' = users
            /\ (pc[p] = "restock_write" /\ Steps(p) /\ req[p].sweet_id \in DOMAIN sweets) =>
                  /\ sweets' = [sweets EXCEPT ![req[p].sweet_id].quantity =
                                   loc[p].current_quantity + req[p].quantity]
                  /\ users' = users
            /\ (pc[p] = "register_create" /\ Steps(p)) =>
                  IF resp'[p].status = 200
                  THEN /\ DOMAIN users' = DOMAIN users \cup {req[p].user_data.username}
                       /\ \A u \in DOMAIN users : users'[u] = users[u]
                       /\ users'[req[p].user_data.username].password_hash
                             = hash_password(req[p].user_data.password)
                       /\ resp'[p].token # None
                       /\ sweets' = sweets
                  ELSE store' = store
      ]_vars

\* C21 witness: a purchase answered 400 and a registration answered 400, and
\* both tables are as they were when the run started.
C21_Witness ==
    \E p, q \in Procs :
        /\ pc[p] = "done" /\ pc[q] = "done"
        /\ req[p].op = "purchase" /\ resp[p].status = 400
        /\ req[q].op = "register" /\ resp[q].status = 400
        /\ sweets = opening
        /\ users = AdminAlone

\* the row an item has after one request on it that runs with no other
\* request in flight (None: the item is not in the table)
Alone(r, row) ==
    IF row = None \/ r = NoRequest THEN row
    ELSE CASE r.op = "purchase" ->
                IF InsufficientStock(row.quantity, r.quantity) THEN row
                ELSE [row EXCEPT !.quantity = PurchaseNewQuantity(@, r.quantity)]
           [] r.op = "restock" ->
                [row EXCEPT !.quantity = RestockNewQuantity(@, r.quantity)]
           [] r.op = "update" ->
                [name |-> IF r.sweet.name # Null THEN r.sweet.name[1] ELSE row.name,
                 category |-> IF r.sweet.category # Null THEN r.sweet.category[1] ELSE row.category,
                 price |-> IF r.sweet.price # Null THEN r.sweet.price[1] ELSE row.price,
                 quantity |-> IF r.sweet.quantity # Null THEN r.sweet.quantity[1] ELSE row.quantity,
                 created_at |-> row.created_at]
           [] r.op = "delete" -> None
           [] OTHER -> row

\* the row of an item in the table
RowOf(id) == IF id \in DOMAIN sweets THEN sweets[id] ELSE None

\* a request on one item of the inventory
OnItem(p) == req[p].op \in {"purchase", "restock", "update", "delete"}

\* C22 (SpecLanes): a step of a purchase, restock, update or delete of one
\* item leaves every other item in the table with every field unchanged; and
\* whatever the requests on item 1 do in between, when the client of item 2
\* has its answer item 2 is what its own requests, run alone and in order on
\* the opening row, make of it.
C22_ItemsIndependent ==
    /\ [][ \A p \in Procs :
              (Steps(p) /\ OnItem(p)) =>
                  \A b \in DOMAIN sweets \ {req[p].sweet_id} :
                      b \in DOMAIN sweets' /\ sweets'[b] = sweets[b] ]_vars
    /\ [](pc[2] = "done" => RowOf(2) = Alone(req[2], Alone(prev[2].req, opening[2])))

\* C22 witness: the client of item 2 has restocked and then bought, and has
\* its second answer, while a request on item 1 has written and is not yet
\* answered.
C22_Witness ==
    /\ pc[2] = "done" /\ resp[2].status = 200 /\ req[2].op = "purchase"
    /\ prev[2].req.op = "restock" /\ prev[2].resp.status = 200
    /\ RowOf(2) # opening[2]
    /\ RowOf(1) # opening[1]
    /\ pc[1] \in {"purchase_return", "restock_return", "update_return"}

\* the positions of the handlers at their existence check
ExistenceCheck == {"purchase_check", "restock_check", "update_check", "delete_check"}

\* C23 (SpecOrder): the gate runs before the operation: a handler reaches its
\* existence check only from the gate and only for a request that passed it.
\* At the gate a request that is not authenticated is answered 401 and an
\* authenticated non-admin on delete or restock 403, whether the item exists
\* or not; 404 is the answer only to a request that is authenticated and, on
\* delete and restock, admin.
C23_GateBeforeExistence ==
    /\ [][ \A p \in Procs :
              /\ (Steps(p) /\ pc'[p] \in ExistenceCheck) =>
                    /\ pc[p] = "auth"
                    /\ Authenticated(p)
                    /\ AdminOnly(req[p].op) => ~AuthenticatedNonAdmin(p)
              /\ (Steps(p) /\ pc[p] = "auth" /\ ~Authenticated(p)) =>
                    /\ pc'[p] = "done"
                    /\ resp'[p].status = 401
              /\ (Steps(p) /\ pc[p] = "auth" /\ AuthenticatedNonAdmin(p)
                    /\ req[p].op \in {"delete", "restock"}) =>
                    /\ pc'[p] = "done"
                    /\ resp'[p].status = 403 ]_vars
    /\ [](\A p \in Procs :
              (pc[p] = "done" /\ resp[p].status = 404) =>
                  /\ Authenticated(p)
                  /\ req[p].op \in {"delete", "restock"} => ~AuthenticatedNonAdmin(p)
                  /\ loc[p].current_user # None)

\* the fields of an item that a PUT can set
UpdatableFields == {"name", "category", "price", "quantity"}

\* C24 (SpecShop): the write of an update sets each field supplied with a
\* non-null value to that value and leaves every other field of the item, and
\* every other item, as it was; no step of any request changes the creation
\* timestamp of an item or the id a response reports for it; an update that
\* supplies no field writes nothing and is answered 200 with the stored item.
C24_UpdateSetsSuppliedFields ==
    [][ /\ \A p \in Procs :
              (pc[p] = "update_exec" /\ Steps(p) /\ req[p].sweet_id \in DOMAIN sweets) =>
                  /\ DOMAIN sweets' = DOMAIN sweets
                  /\ \A f \in UpdatableFields :
                        sweets'[req[p].sweet_id][f] =
                            IF req[p].sweet[f] # Null
                            THEN req[p].sweet[f][1]
                            ELSE sweets[req[p].sweet_id][f]
                  /\ \A b \in DOMAIN sweets \ {req[p].sweet_id} : sweets'[b] = sweets[b]
                  /\ req[p].sweet = NoFields => sweets' = sweets
        /\ \A p \in Procs :
              (pc[p] = "update_return" /\ Steps(p)) =>
                  /\ resp'[p].status = 200
                  /\ resp'[p].item = get_sweet_by_id(req[p].sweet_id)
                  /\ sweets' = sweets
        /\ \A id \in DOMAIN sweets \cap DOMAIN sweets' :
              sweets'[id].created_at = sweets[id].created_at
        /\ \A p \in Procs :
              (Steps(p) /\ OnItem(p) /\ pc'[p] = "done" /\ resp'[p].item # None) =>
                  /\ resp'[p].item.id = req[p].sweet_id
                  /\ resp'[p].item.created_at = opening[req[p].sweet_id].created_at
      ]_vars

\* C24 witness: the admin's update of the price and category of item 1 was
\* answered 200; the stored item has the new price and category and the name,
\* quantity and creation timestamp it had.
C24_Witness ==
    /\ pc[2] = "done"
    /\ req[2] = UpdateRequest(AdminToken, 1,
                    [NoFields EXCEPT !.price = Some(100), !.category = Some("Candy")])
    /\ resp[2].status = 200
    /\ sweets[1].price = 100 /\ sweets[1].category = "Candy"
    /\ opening[1].price # 100 /\ opening[1].category # "Candy"
    /\ sweets[1].name = opening[1].name
    /\ sweets[1].quantity = opening[1].quantity
    /\ sweets[1].created_at = opening[1].created_at
    /\ resp[2].item = get_sweet_by_id(1)

====
